---- MODULE Spec2Model ----
(***************************************************************************)
(* Change-stream state machine of the driver (watch / next / resume /      *)
(* destroy) against a server that answers aggregate, getMore and           *)
(* killCursors.  The stream's behaviour is the one the mock-server tests   *)
(* of test-mongoc-change-stream.c (src/unnamed/part_000) pin down command  *)
(* by command; where the tests are silent the design document is followed. *)
(***************************************************************************)
EXTENDS Integers, Sequences, FiniteSets, TLC

(* ------------------------------------------------------------------ *)
(* Bounds of the model                                                 *)
(* ------------------------------------------------------------------ *)

\* longest firstBatch / nextBatch the server sends
MaxBatch == 2

\* number of aggregate commands (cursors opened) in the life of one stream
MaxCursors == 3

(* ------------------------------------------------------------------ *)
(* Values                                                              *)
(* ------------------------------------------------------------------ *)

\* an absent optional value (empty bson_t, unset timestamp, NULL document)
None == "none"

\* the _id of an event whose _id is absent or not a document
NoId == "noid"

\* resume tokens the server hands out, as event _id and as postBatchResumeToken
ServerTokens == {"t1", "t2"}

\* operationTime values of aggregate replies
ReplyTimes == {"agg_op"}

\* the user's options: each selector is absent or the user's value
UserOptions ==
    [resume_after : {None, "opt_ra"},
     start_after : {None, "opt_sa"},
     start_at_operation_time : {None, "opt_op"}]

\* an event document is identified by its _id
Docs == ServerTokens \cup {NoId}

RECURSIVE SeqsUpTo(_, _)
SeqsUpTo(S, n) ==
    IF n = 0 THEN {<<>>}
    ELSE LET shorter == SeqsUpTo(S, n - 1)
         IN  shorter \cup {Append(s, d) : s \in {q \in shorter : Len(q) = n - 1}, d \in S}

Batches == SeqsUpTo(Docs, MaxBatch)

(* ------------------------------------------------------------------ *)
(* Documents, pipelines and namespaces                                 *)
(* ------------------------------------------------------------------ *)

\* a BSON element.  The value of a document is the sequence of its keys, the
\* value of an array the sequence of its elements, a scalar is a one-element
\* sequence
Elem(k, t, v) == [key |-> k, type |-> t, value |-> v]

\* a pipeline stage as a typed value
Stage(t, v) == [type |-> t, value |-> v]

ProjectStage == Stage("document", <<"$project">>)
MatchStage == Stage("document", <<"$match">>)
OutStage == Stage("document", <<"$out">>)
MergeStage == Stage("document", <<"$merge">>)
\* a stage that is not a document, as in {'pipeline': [42]}
IntStage == Stage("int32", <<"42">>)
ChangeStreamStage == Stage("document", <<"$changeStream">>)

\* the array-shaped document {"0": s1, .., "n-1": sn}
ArrayDoc(stages) ==
    [i \in 1..Len(stages) |->
        Elem(ToString(i - 1), stages[i].type, stages[i].value)]

\* the document {"pipeline": [s1, .., sn]}
PipelineDoc(stages) == <<Elem("pipeline", "array", ArrayDoc(stages))>>

\* the stages of an array, in order, without their keys
StagesOf(array) == [i \in 1..Len(array) |-> Stage(array[i].type, array[i].value)]

\* does document d hold an array under the key "pipeline"?
\* (bson_iter_init_find && BSON_ITER_HOLDS_ARRAY)
HoldsPipelineArray(d) ==
    /\ \E i \in 1..Len(d) : d[i].key = "pipeline"
    /\ LET first == CHOOSE i \in 1..Len(d) :
                       /\ d[i].key = "pipeline"
                       /\ \A j \in 1..(i - 1) : d[j].key # "pipeline"
       IN  d[first].type = "array"

\* faulty variant: only the {"pipeline": [..]} form is understood
PipelineArrayWrappedOnly(d) ==
    IF HoldsPipelineArray(d)
    THEN LET first == CHOOSE i \in 1..Len(d) :
                         /\ d[i].key = "pipeline"
                         /\ \A j \in 1..(i - 1) : d[j].key # "pipeline"
         IN  d[first].value
    ELSE <<>>

\* the array a pipeline argument stands for: the array under "pipeline" when
\* there is one, the argument itself otherwise
PipelineArray(d) ==
    IF HoldsPipelineArray(d)
    THEN LET first == CHOOSE i \in 1..Len(d) :
                         /\ d[i].key = "pipeline"
                         /\ \A j \in 1..(i - 1) : d[j].key # "pipeline"
         IN  d[first].value
    ELSE d

\* the value of a command's "aggregate" field
NoTarget == Stage("none", <<>>)

\* does namespace ns, a sequence of names and "." separators, contain a "."?
HasDot(ns) == \E i \in 1..Len(ns) : ns[i] = "."

\* strstr (ns, "."): the place of the first "."
FirstDot(ns) ==
    CHOOSE i \in 1..Len(ns) : ns[i] = "." /\ \A j \in 1..(i - 1) : ns[j] # "."

\* faulty variant: the place of the last "."
LastDot(ns) ==
    CHOOSE i \in 1..Len(ns) :
        ns[i] = "." /\ \A j \in (i + 1)..Len(ns) : ns[j] # "."

\* the place of the "." that ends the database name
DotOf(ns) == FirstDot(ns)

\* the "aggregate" field for namespace ns: the collection name, or 1
AggregateTarget(ns) ==
    IF HasDot(ns)
    THEN Stage("utf8", SubSeq(ns, DotOf(ns) + 1, Len(ns)))
    ELSE Stage("int32", <<"1">>)

\* what watch() was called with besides the resume selectors
PlainWatch ==
    [ns |-> <<"db", ".", "coll">>,
     pipeline |-> <<>>,
     full_document |-> "default",
     batch_size |-> None,
     max_await_time_ms |-> None,
     collation |-> None,
     read_mode |-> "primary"]

OptionsWatch ==
    [ns |-> <<"db", ".", "coll">>,
     pipeline |-> PipelineDoc(<<ProjectStage, IntStage>>),
     full_document |-> "updateLookup",
     batch_size |-> "5",
     max_await_time_ms |-> "5000",
     collation |-> "en",
     read_mode |-> "secondary"]

DatabaseWatch ==
    [ns |-> <<"db">>,
     pipeline |-> ArrayDoc(<<ProjectStage, IntStage>>),
     full_document |-> "default",
     batch_size |-> None,
     max_await_time_ms |-> None,
     collation |-> None,
     read_mode |-> "secondary"]

\* the requests of the option-routing specification
OptionRequests == {PlainWatch, OptionsWatch, DatabaseWatch}

\* the servers of the deployment a read-preference mode selects among
Suitable(mode) ==
    IF mode = "primary" THEN {"primary"}
    ELSE {"secondary1", "secondary2"}

(* ------------------------------------------------------------------ *)
(* mongoc-aggregate.c: the aggregate command and its cursor            *)
(* ------------------------------------------------------------------ *)

\* the longest pipeline _mongoc_aggregate is called with
MaxStages == 2

\* a document that is not valid BSON: bson_iter_init fails on it and no key
\* is found in it
InvalidBson == <<Elem("", "invalid", <<>>)>>

\* bson_iter_init
IterInit(d) == d # InvalidBson

\* the elements an iterator over d visits; an iterator that could not be
\* initialised visits none
IterOver(d) == IF IterInit(d) THEN d ELSE <<>>

\* bson_iter_find in the document an element holds
HoldsKey(e, k) == \E i \in 1..Len(e.value) : e.value[i] = k

\* _has_write_key: true at the first document element that holds "$out" or
\* "$merge", false when the iterator runs out
RECURSIVE HasWriteKey(_)
HasWriteKey(iter) ==
    IF iter = <<>> THEN FALSE
    ELSE IF Head(iter).type = "document"
            /\ (HoldsKey(Head(iter), "$out") \/ HoldsKey(Head(iter), "$merge"))
         THEN TRUE
         ELSE HasWriteKey(Tail(iter))

\* a value of opts' batchSize.  An integer is held as the high and the low
\* 32 bits of its two's complement form, each read as a signed number; frac
\* says that a double has a fractional part besides
Number(t, hi, lo, frac) == [type |-> t, hi |-> hi, lo |-> lo, frac |-> frac]
NoBatchSize == Number("none", 0, 0, FALSE)
Int32(n) == Number("int32", IF n < 0 THEN -1 ELSE 0, n, FALSE)

\* BSON_ITER_HOLDS_NUMBER
HoldsNumber(v) == v.type \in {"int32", "int64", "double"}

\* (int32_t) bson_iter_as_int64: the fraction is dropped, then the low 32 bits
\* are kept
AsInt32(v) == v.lo

\* the batchSize values of opts: absent, 0, 5, the int64 2^32, the double 0.5
\* and the string "5"
BatchSizes ==
    {NoBatchSize, Int32(0), Int32(5), Number("int64", 1, 0, FALSE),
     Number("double", 0, 0, TRUE), Number("utf8", 0, 5, FALSE)}

\* the "cursor" subdocument of the command
CursorSubdocument(has_write_key, batchSize) ==
    IF HoldsNumber(batchSize) /\ ~(has_write_key /\ AsInt32(batchSize) = 0)
    THEN <<Elem("batchSize", "int32", <<AsInt32(batchSize)>>)>>
    ELSE <<>>

\* an error of a cursor
CursorError(domain, code, message) ==
    [domain |-> domain, code |-> code, message |-> message]
NoCursorError == CursorError(None, None, "")

AppendPipelineError ==
    CursorError("COMMAND", "COMMAND_INVALID_ARG",
                "Failed to append \"pipeline\" to create command.")

\* _make_agg_cmd; append_ok is whether bson_append_iter had room for the
\* pipeline
MakeAggCmd(ns, pipeline, o, append_ok) ==
    IF HoldsPipelineArray(pipeline) /\ ~append_ok
    THEN [ok |-> FALSE, err |-> AppendPipelineError,
          command |-> [aggregate |-> AggregateTarget(ns), pipeline |-> <<>>,
                       cursor |-> <<>>]]
    ELSE [ok |-> TRUE, err |-> NoCursorError,
          command |->
             [aggregate |-> AggregateTarget(ns),
              pipeline |-> PipelineArray(pipeline),
              cursor |-> CursorSubdocument(
                            HasWriteKey(IterOver(PipelineArray(pipeline))),
                            o.batchSize)]]

\* a string element named like a write stage: not a document, so no stage
OutString == Stage("utf8", <<"$out">>)

\* the pipelines _mongoc_aggregate is called with, as stage sequences
AggStageSeqs ==
    SeqsUpTo({ProjectStage, OutStage, MergeStage, IntStage, OutString},
             MaxStages)

\* a document whose "pipeline" key holds no array: it is itself the array
OddPipeline == <<Elem("pipeline", "utf8", <<"x">>)>>

\* the pipeline arguments: both forms of every stage sequence, a document
\* that only looks wrapped, and invalid BSON
AggPipelines ==
    {ArrayDoc(ss) : ss \in AggStageSeqs}
    \cup {PipelineDoc(ss) : ss \in AggStageSeqs}
    \cup {OddPipeline, InvalidBson}

\* the namespaces: a database, a collection, a collection with a "." in its
\* name, and an empty collection name
AggNamespaces ==
    {<<"db">>, <<"db", ".", "coll">>, <<"db", ".", "a", ".", "b">>,
     <<"db", ".">>}

\* opts: batchSize, whether a writeConcern field is there, whether serverId
\* is valid, whether the rest is
AggOpts ==
    [batchSize : BatchSizes, writeConcern : BOOLEAN, serverId_ok : BOOLEAN,
     rest_ok : BOOLEAN]

\* the effective read preferences of the cursor: the user's, or the default
ReadPrefs(mode, valid) == [mode |-> mode, valid |-> valid]
AggReadPrefs ==
    {ReadPrefs("primary", TRUE), ReadPrefs("secondary", TRUE),
     ReadPrefs("secondary", FALSE)}

\* the oldest wire version that takes a writeConcern with aggregate; only
\* how a server's version compares with it matters
WIRE_VERSION_CMD_WRITE_CONCERN == 5

\* the max wire versions of the servers
WireVersions ==
    (WIRE_VERSION_CMD_WRITE_CONCERN - 1)..(WIRE_VERSION_CMD_WRITE_CONCERN + 1)

NoCommand == [aggregate |-> NoTarget, pipeline |-> <<>>, cursor |-> <<>>]

ServerIdError ==
    CursorError("COMMAND", "COMMAND_INVALID_ARG", "invalid serverId")
OptsError == CursorError("CURSOR", "CURSOR_INVALID_CURSOR", "invalid opts")
ReadPrefsError ==
    CursorError("COMMAND", "COMMAND_INVALID_ARG", "invalid read preferences")
InvalidPipelineError ==
    CursorError("BSON", "BSON_INVALID", "Pipeline is invalid BSON")
SelectionFailedError ==
    CursorError("SERVER_SELECTION", "SERVER_SELECTION_FAILURE",
                "No suitable servers found")
BadWireVersionError ==
    CursorError("COMMAND", "PROTOCOL_BAD_WIRE_VERSION",
                "\"aggregate\" with \"$out\" or \"$merge\" does not support writeConcern")

\* _mongoc_cursor_cmd_new: the cursor holds the command when there is one,
\* the read preferences, its own write concern, and an error when opts is bad
CursorCmdNew(made, o, rp) ==
    [command |-> IF made.ok THEN made.command ELSE NoCommand,
     has_command |-> made.ok,
     error |-> IF o.serverId_ok /\ o.rest_ok THEN NoCursorError ELSE OptsError,
     read_prefs |-> rp,
     write_concern |-> IF o.writeConcern THEN "opts" ELSE "unset"]

\* has_write_key as _mongoc_aggregate computes it for a valid pipeline
PipelineHasWriteKey(pipeline) == HasWriteKey(IterOver(PipelineArray(pipeline)))

\* the error _mongoc_aggregate finds before it selects a server, if any
ParameterError(made, o, rp, pipeline, cursor) ==
    CASE ~made.ok -> made.err
      [] made.ok /\ ~o.serverId_ok -> ServerIdError
      [] made.ok /\ o.serverId_ok /\ cursor.error # NoCursorError -> cursor.error
      [] made.ok /\ o.serverId_ok /\ cursor.error = NoCursorError /\ ~rp.valid
            -> ReadPrefsError
      [] made.ok /\ o.serverId_ok /\ cursor.error = NoCursorError /\ rp.valid
         /\ ~HoldsPipelineArray(pipeline) /\ ~IterInit(pipeline)
            -> InvalidPipelineError
      [] OTHER -> NoCursorError

\* faulty variant: a pipeline with a write stage keeps its read preferences
EffectiveReadPrefsKept(rp, has_write_key) == rp

\* the read preferences the server is selected with
EffectiveReadPrefs(rp, has_write_key) ==
    IF has_write_key /\ rp.mode # "primary"
    THEN ReadPrefs("primary", TRUE)
    ELSE rp

\* no call of _mongoc_aggregate is running and no cursor is held
AggIdle ==
    [pc |-> "idle", ns |-> <<>>, pipeline |-> <<>>,
     opts |-> [batchSize |-> NoBatchSize, writeConcern |-> FALSE,
               serverId_ok |-> TRUE, rest_ok |-> TRUE],
     has_write_key |-> FALSE, read_prefs |-> ReadPrefs("primary", TRUE),
     cursor |-> CursorCmdNew([ok |-> FALSE, err |-> NoCursorError,
                              command |-> NoCommand],
                             [batchSize |-> NoBatchSize, writeConcern |-> FALSE,
                              serverId_ok |-> TRUE, rest_ok |-> TRUE],
                             ReadPrefs("primary", TRUE)),
     returned |-> None, fetches |-> 0, wire |-> 0]

NoError == [kind |-> "none", code |-> 0, errmsg |-> ""]

\* no command has failed
NoReplyError == [cmd |-> None, error |-> NoError, server |-> None]

\* command cmd, sent to server s, came back with error e
ReplyError(cmd, e, s) == [cmd |-> cmd, error |-> e, server |-> s]

NoResumeTokenError ==
    [kind |-> "no_resume_token", code |-> 0,
     errmsg |-> "Cannot provide resume functionality"]

HangUp == [kind |-> "hangup", code |-> 0, errmsg |-> ""]

ServerError(code, msg) == [kind |-> "server", code |-> code, errmsg |-> msg]

\* what a getMore can fail with
GetMoreErrors ==
    {ServerError(1, "internal error"),
     ServerError(6, "host unreachable"),
     ServerError(12345, "random error"),
     ServerError(11601, "interrupted"),
     ServerError(136, "capped position lost"),
     ServerError(237, "cursor killed"),
     ServerError(0, "not master"),
     ServerError(0, "node is recovering"),
     ServerError(0, "random error"),
     ServerError(10107, "not master"),
     HangUp}

\* what an aggregate can fail with
AggregateErrors ==
    {ServerError(123, "bad cmd"),
     ServerError(10107, "not master"),
     [kind |-> "selection", code |-> 0, errmsg |-> "No suitable servers found"]}

(* ------------------------------------------------------------------ *)
(* Error classifier                                                    *)
(* ------------------------------------------------------------------ *)

\* faulty variant: capped-position-lost is missing from the denylist
NonResumableCodesShort == {11601, 237}

NonResumableCodes == {11601, 136, 237}

NotMasterCodes == {10107}

\* faulty variant: "node is recovering" is not recognised
NotMasterMessagesShort == {"not master"}

NotMasterMessages == {"not master", "node is recovering"}

\* faulty variant: a hang-up is not resumable
IsResumableErrorNoHangUp(e) ==
    CASE e.kind # "server" -> FALSE
      [] e.code = 0 -> e.errmsg \in NotMasterMessages
      [] e.code \in NonResumableCodes -> FALSE
      [] OTHER -> TRUE

IsResumableError(e) ==
    CASE e.kind = "hangup" -> TRUE
      [] e.kind # "server" -> FALSE
      [] e.code = 0 -> e.errmsg \in NotMasterMessages
      [] e.code \in NonResumableCodes -> FALSE
      [] OTHER -> TRUE

\* faulty variant: every error reply with a code kills the cursor
ResumeKillsCursorAnyCode(e) ==
    /\ IsResumableError(e)
    /\ e.kind = "server"
    /\ e.code # 0

\* faulty variant: a resume never kills the cursor
ResumeNeverKills(e) == FALSE

\* a killCursors for the failed cursor precedes the resumed aggregate
ResumeKillsCursor(e) ==
    /\ IsResumableError(e)
    /\ e.kind = "server"
    /\ e.code # 0
    /\ e.code \notin NotMasterCodes

(* ------------------------------------------------------------------ *)
(* State                                                               *)
(* ------------------------------------------------------------------ *)

VARIABLES
    opts,             \* the options the stream was created with
    state,            \* "Initial", "Open", "Errored", "Closed"
    op,               \* the API call in progress: "watch", "next" or None
    pc,               \* "idle", "await_agg", "await_getmore"
    cursor_id,        \* id of the owned cursor, 0 when exhausted or absent
    batch,            \* the latest batch as the server sent it
    pos,              \* how many documents of batch have been consumed
    cursor_pbrt,      \* postBatchResumeToken of the latest batch
    operation_time,   \* ResumeState.operation_time
    post_batch_token, \* ResumeState.post_batch_token
    last_doc_token,   \* ResumeState.last_doc_token
    err,              \* the sticky error
    cursors_opened,   \* aggregates sent so far (the server numbers its cursors)
    sent,             \* commands the stream sent in its latest step, in order
    call_aggregates,  \* aggregates sent by the current / most recent next
    call_getmores,    \* getMores sent by the current / most recent next
    ret,              \* outcome of the most recent next: "doc", "no_doc", "error"
    retDoc,           \* the document the most recent next returned
    init_reply_time,  \* operationTime of the initial aggregate reply
    tokBefore,        \* get_resume_token sampled when next began; kept while
                      \* it runs and after it returned no document
    tokAtLastDoc,     \* get_resume_token sampled after the last returned doc
    last_returned,    \* _id of the last document handed to the caller
    call_pbrt,        \* latest postBatchResumeToken a reply carried during the
                      \* running next; kept after it returned no document
    reply_err,        \* the command that failed last and the error it came back
                      \* with; cleared by a successful aggregate reply
    request,          \* target, pipeline and options watch() was called with
    server_id,        \* the server the latest aggregate was sent to
    kill_reply,       \* how the killCursors of the resume in progress came
                      \* back, None when none was sent
    agg,              \* the call of _mongoc_aggregate and the cursor it made
    resumed_once_this_batch
                      \* a resume was started and has not yet led to a reply
                      \* of the new cursor

vars ==
    <<opts, state, op, pc, cursor_id, batch, pos, cursor_pbrt, operation_time,
      post_batch_token, last_doc_token, err, cursors_opened, sent,
      call_aggregates, call_getmores, ret, retDoc, init_reply_time, tokBefore,
      tokAtLastDoc, last_returned, call_pbrt, reply_err, request, server_id,
      kill_reply, agg, resumed_once_this_batch>>

(* ------------------------------------------------------------------ *)
(* Resume-token store                                                  *)
(* ------------------------------------------------------------------ *)

AtBatchBoundary == pos = Len(batch)

\* faulty variant: the last document's token outranks the post-batch token
ResumeTokenDocFirst(pbt, boundary, ldt, o) ==
    CASE ldt # None -> ldt
      [] pbt # None /\ boundary -> pbt
      [] o.start_after # None -> o.start_after
      [] o.resume_after # None -> o.resume_after
      [] OTHER -> None

\* faulty variant: the user's tokens outrank the last document's token
ResumeTokenUserFirst(pbt, boundary, ldt, o) ==
    CASE pbt # None /\ boundary -> pbt
      [] o.start_after # None -> o.start_after
      [] o.resume_after # None -> o.resume_after
      [] ldt # None -> ldt
      [] OTHER -> None

\* the token a resume would send as resumeAfter, None when there is none
ResumeToken(pbt, boundary, ldt, o) ==
    CASE pbt # None /\ boundary -> pbt
      [] ldt # None -> ldt
      [] o.start_after # None -> o.start_after
      [] o.resume_after # None -> o.resume_after
      [] OTHER -> None

\* mongoc_change_stream_get_resume_token
GetResumeToken ==
    ResumeToken(post_batch_token, AtBatchBoundary, last_doc_token, opts)

(* ------------------------------------------------------------------ *)
(* Command builder                                                     *)
(* ------------------------------------------------------------------ *)

\* the pipeline of the stream's aggregate for the user's pipeline argument
ChangeStreamPipeline(user_pipeline) ==
    <<ChangeStreamStage>> \o StagesOf(PipelineArray(user_pipeline))

\* faulty variant: max_await_time_ms is sent with the aggregate as well
AggregateMaxTimeSent(req) == req.max_await_time_ms

\* maxTimeMS of an aggregate: max_await_time_ms is for getMore only
AggregateMaxTime(req) == None

\* batchSize of a getMore
GetMoreBatchSize(req) == req.batch_size

\* an aggregate command; resumeAfter, startAfter, startAtOperationTime and
\* fullDocument are the fields of its $changeStream stage, batchSize is
\* cursor.batchSize
Aggregate(ra, sa, op_time) ==
    [cmd |-> "aggregate", cursor |-> 0,
     resumeAfter |-> ra, startAfter |-> sa, startAtOperationTime |-> op_time,
     aggregate |-> AggregateTarget(request.ns),
     pipeline |-> ChangeStreamPipeline(request.pipeline),
     fullDocument |-> request.full_document,
     batchSize |-> request.batch_size,
     maxTimeMS |-> AggregateMaxTime(request),
     collation |-> request.collation]

GetMore(id) ==
    [cmd |-> "getMore", cursor |-> id,
     resumeAfter |-> None, startAfter |-> None, startAtOperationTime |-> None,
     aggregate |-> NoTarget,
     pipeline |-> <<>>,
     fullDocument |-> None,
     batchSize |-> GetMoreBatchSize(request),
     maxTimeMS |-> request.max_await_time_ms,
     collation |-> None]

KillCursors(id) ==
    [cmd |-> "killCursors", cursor |-> id,
     resumeAfter |-> None, startAfter |-> None, startAtOperationTime |-> None,
     aggregate |-> NoTarget,
     pipeline |-> <<>>,
     fullDocument |-> None,
     batchSize |-> None,
     maxTimeMS |-> None,
     collation |-> None]

\* faulty variant: the first aggregate carries one selector only, chosen as
\* a resume chooses
InitialCommandOneSelector(o) ==
    CASE o.start_after # None -> Aggregate(None, o.start_after, None)
      [] o.resume_after # None -> Aggregate(o.resume_after, None, None)
      [] OTHER -> Aggregate(None, None, o.start_at_operation_time)

\* the first aggregate carries the user's selectors verbatim
InitialCommand(o) ==
    Aggregate(o.resume_after, o.start_after, o.start_at_operation_time)

\* faulty variant: the cached token is sent as startAfter
ResumeCommandStartAfter(tok, op_time) ==
    IF tok # None THEN Aggregate(None, tok, None)
    ELSE Aggregate(None, None, op_time)

\* faulty variant: the operation time is sent next to the cached token
ResumeCommandBoth(tok, op_time) ==
    Aggregate(tok, None, op_time)

\* faulty variant: a resumed aggregate is built without the cursor and
\* collation options
ResumeCommandNoOptions(tok, op_time) ==
    [(IF tok # None THEN Aggregate(tok, None, None)
      ELSE Aggregate(None, None, op_time))
        EXCEPT !.batchSize = None, !.collation = None]

\* a resumed aggregate carries the cached token, else the operation time
ResumeCommand(tok, op_time) ==
    IF tok # None THEN Aggregate(tok, None, None)
    ELSE Aggregate(None, None, op_time)

\* faulty variant: the reply's operationTime is never captured
CaptureNothing(held, replied) == held

\* faulty variant: the reply's operationTime replaces the user's
CaptureReplied(held, replied) ==
    IF replied # None THEN replied ELSE held

\* the operation time kept after the initial aggregate reply
CaptureOperationTime(held, replied) ==
    IF held # None THEN held ELSE replied

(* ------------------------------------------------------------------ *)
(* Initial state: a stream object about to be opened by watch()        *)
(* ------------------------------------------------------------------ *)

\* a stream created with one of the selector options O and one of the
\* requests R
InitWith(O, R) ==
    /\ opts \in O
    /\ state = "Initial"
    /\ op = None
    /\ pc = "idle"
    /\ cursor_id = 0
    /\ batch = <<>>
    /\ pos = 0
    /\ cursor_pbrt = None
    /\ operation_time = opts.start_at_operation_time
    /\ post_batch_token = None
    /\ last_doc_token = None
    /\ err = NoError
    /\ cursors_opened = 0
    /\ sent = <<>>
    /\ call_aggregates = 0
    /\ call_getmores = 0
    /\ ret = None
    /\ retDoc = None
    /\ init_reply_time = None
    /\ tokBefore = None
    /\ tokAtLastDoc = None
    /\ last_returned = None
    /\ call_pbrt = None
    /\ reply_err = NoReplyError
    /\ request \in R
    /\ server_id = None
    /\ kill_reply = None
    /\ agg = AggIdle
    /\ resumed_once_this_batch = FALSE

\* streams on a collection with an empty pipeline and every combination of
\* the resume selectors
Init == InitWith(UserOptions, {PlainWatch})

(* ------------------------------------------------------------------ *)
(* Token bookkeeping when a reply or a document is consumed            *)
(* ------------------------------------------------------------------ *)

\* post_batch_token after a document was returned: the batch's token once the
\* batch is consumed to completion, nothing while documents remain buffered
PostBatchAfterDoc(pbrt, atEnd) ==
    IF atEnd /\ pbrt # None THEN pbrt ELSE None

\* faulty variant: an empty batch never refreshes post_batch_token
PostBatchKeep(held, pbrt) == held

\* faulty variant: an empty batch without a token clears post_batch_token
PostBatchLatest(held, pbrt) == pbrt

\* post_batch_token after an empty batch: refreshed when the reply carries one
PostBatchAfterEmpty(held, pbrt) ==
    IF pbrt # None THEN pbrt ELSE held

\* faulty variant: only the first document's token is recorded
LastDocKeepFirst(d, held) == IF held # None THEN held ELSE d

\* faulty variant: the token is recorded one document late
LastDocStale(d, held) == held

\* last_doc_token after document d was returned
LastDocAfter(d, held) == d

\* the document next hands out of the buffered rest of a batch
NextBuffered(rest) == Head(rest)

\* how a killCursors can come back: the cursor was killed, the server replied
\* with an error, or the connection was closed
KillReplies == {"killed", "error", "hangup"}

\* the error reply of a killCursors
CursorNotFound == ServerError(43, "cursor not found")

\* faulty variant: a failed killCursors fails the resume
KillCursorsErrorKept(k) ==
    CASE k = "error" -> CursorNotFound
      [] k = "hangup" -> HangUp
      [] OTHER -> NoError

\* the error a resume keeps of its killCursors: none, whatever came back
KillCursorsError(k) == NoError

\* faulty variant: a resume goes to the primary
ResumeServersPrimary(req) == Suitable("primary")

\* the servers a resume selects among: those the read preference of the
\* original open allows
ResumeServers(req) == Suitable(req.read_mode)

\* faulty variant: a resumed aggregate that succeeds leaves the flag set
ResumedAfterOpenKept(flag) == flag

\* resumed_once_this_batch after a successful cursor open
ResumedAfterOpen(flag) == FALSE

\* resumed_once_this_batch after a successful getMore, whatever its batch
ResumedAfterGetMore(flag) == FALSE

\* faulty variant: the cursor that lost its capped position is killed at once
FatalKillsCursor136(e) == e.kind = "server" /\ e.code = 136

\* is a killCursors sent when a getMore error is classified fatal?  Never:
\* the cursor is left to destroy
FatalKillsCursor(e) == FALSE

\* faulty variant: a next resumes at most once
ShouldResumeOnce(e, resumes) == IsResumableError(e) /\ resumes = 0

\* is the error of a failed getMore answered by a resume?  resumes is the
\* number of aggregates the running next has sent so far
ShouldResume(e, resumes) == IsResumableError(e)

\* faulty variant: the sticky error is not looked at
StreamNeverFailed(st) == FALSE

\* does the stream hold a sticky error?
StreamFailed(st) == st = "Errored"

\* faulty variant: an event is handed out whatever its _id
HasResumeTokenAlways(d) == TRUE

\* is the _id of event d present and a document?
HasResumeToken(d) == d # NoId

\* the latest postBatchResumeToken the replies of one next carried
LatestPbrt(seen, pbrt) == IF pbrt # None THEN pbrt ELSE seen

\* next returns: outcome r, document d; tb is the token sampled at its start,
\* cp the latest postBatchResumeToken its replies carried
Return(r, d, tb, cp) ==
    /\ ret' = r
    /\ retDoc' = d
    /\ last_returned' = IF r = "doc" THEN d ELSE last_returned
    /\ tokBefore' = IF r = "no_doc" THEN tb ELSE None
    /\ call_pbrt' = IF r = "no_doc" THEN cp ELSE None
    /\ op' = None
    /\ pc' = "idle"

\* next consumes the first document of the buffered rest of a batch whose
\* reply carried pbrt, and returns
Deliver(rest, pbrt, tb, cp) ==
    LET d == NextBuffered(rest)
        atEnd == Len(rest) = 1
    IN  IF ~HasResumeToken(d)
        THEN /\ state' = "Errored"
             /\ err' = NoResumeTokenError
             /\ Return("error", None, tb, cp)
             /\ UNCHANGED <<last_doc_token, post_batch_token, tokAtLastDoc>>
        ELSE /\ last_doc_token' = LastDocAfter(d, last_doc_token)
             /\ post_batch_token' = PostBatchAfterDoc(pbrt, atEnd)
             /\ Return("doc", d, tb, cp)
             /\ tokAtLastDoc' =
                   ResumeToken(post_batch_token', atEnd, last_doc_token', opts)
             /\ UNCHANGED <<state, err>>

(* ------------------------------------------------------------------ *)
(* watch(): eager open, sends the initial aggregate                    *)
(* ------------------------------------------------------------------ *)

\* faulty variant: watch sends nothing, the stream is opened by the first next
WatchCommandsLazy(o) == <<>>

\* what watch sends before it returns
WatchCommands(o) == <<InitialCommand(o)>>

Watch ==
    /\ state = "Initial"
    /\ pc = "idle"
    /\ op' = "watch"
    /\ pc' = "await_agg"
    /\ sent' = WatchCommands(opts)
    /\ cursors_opened' = cursors_opened + 1
    /\ UNCHANGED <<call_aggregates, call_getmores>>
    /\ server_id' \in Suitable(request.read_mode)
    /\ UNCHANGED <<opts, state, cursor_id, batch, pos, cursor_pbrt,
                   operation_time, post_batch_token, last_doc_token, err, ret,
                   retDoc, init_reply_time, tokBefore, tokAtLastDoc,
                   last_returned, call_pbrt, reply_err, request, agg, kill_reply,
                   resumed_once_this_batch>>

(* ------------------------------------------------------------------ *)
(* the server answers an aggregate                                     *)
(* ------------------------------------------------------------------ *)

\* reply to the initial aggregate: the stream is open, nothing is consumed
OpenReply(id, b, p, t) ==
    /\ op = "watch"
    /\ state' = "Open"
    /\ cursor_id' = id
    /\ batch' = b
    /\ pos' = 0
    /\ cursor_pbrt' = p
    /\ operation_time' = CaptureOperationTime(operation_time, t)
    /\ init_reply_time' = t
    /\ post_batch_token' =
          IF b = <<>> THEN PostBatchAfterEmpty(post_batch_token, p)
          ELSE post_batch_token
    /\ op' = None
    /\ pc' = "idle"
    /\ sent' = <<>>
    /\ reply_err' = NoReplyError
    /\ resumed_once_this_batch' = ResumedAfterOpen(resumed_once_this_batch)
    /\ UNCHANGED <<opts, last_doc_token, err, cursors_opened, call_aggregates,
                   call_getmores, ret, retDoc, tokBefore, tokAtLastDoc,
                   last_returned, call_pbrt, request, agg, server_id, kill_reply>>

\* reply to a resumed aggregate: the running next goes on with the new cursor
ResumeReply(id, b, p) ==
    /\ op = "next"
    /\ cursor_id' = id
    /\ batch' = b
    /\ cursor_pbrt' = p
    /\ IF b # <<>>
       THEN /\ pos' = 1
            /\ Deliver(b, p, tokBefore, LatestPbrt(call_pbrt, p))
            /\ sent' = <<>>
            /\ UNCHANGED call_getmores
       ELSE /\ pos' = 0
            /\ post_batch_token' = PostBatchAfterEmpty(post_batch_token, p)
            /\ UNCHANGED <<state, err, last_doc_token, tokAtLastDoc>>
            /\ IF id # 0
               THEN /\ sent' = <<GetMore(id)>>
                    /\ call_getmores' = call_getmores + 1
                    /\ pc' = "await_getmore"
                    /\ call_pbrt' = LatestPbrt(call_pbrt, p)
                    /\ UNCHANGED <<op, ret, retDoc, tokBefore, last_returned>>
               ELSE /\ Return("no_doc", None, tokBefore,
                              LatestPbrt(call_pbrt, p))
                    /\ sent' = <<>>
                    /\ UNCHANGED call_getmores
    /\ reply_err' = NoReplyError
    /\ resumed_once_this_batch' = ResumedAfterOpen(resumed_once_this_batch)
    /\ kill_reply' = None
    /\ UNCHANGED <<opts, operation_time, cursors_opened, init_reply_time,
                   call_aggregates, request, agg, server_id>>

AggregateOk ==
    /\ pc = "await_agg"
    /\ \E exhausted \in BOOLEAN, b \in Batches,
          p \in ServerTokens \cup {None}, t \in ReplyTimes \cup {None} :
          LET id == IF exhausted THEN 0 ELSE cursors_opened
          IN  \/ OpenReply(id, b, p, t)
              \/ t = None /\ ResumeReply(id, b, p)

\* the stream becomes Errored with the error e of a failed aggregate
AggregateFatal(e) ==
    /\ state' = "Errored"
    /\ err' = e
    /\ reply_err' = ReplyError("aggregate", e, server_id)
    /\ kill_reply' = None
    /\ cursor_id' = 0
    /\ batch' = <<>>
    /\ pos' = 0
    /\ cursor_pbrt' = None
    /\ IF op = "next"
       THEN Return("error", None, tokBefore, call_pbrt)
       ELSE /\ op' = None
            /\ pc' = "idle"
            /\ UNCHANGED <<ret, retDoc, tokBefore, last_returned, call_pbrt>>
    /\ sent' = <<>>
    /\ UNCHANGED <<opts, operation_time, post_batch_token, last_doc_token,
                   cursors_opened, call_aggregates, call_getmores,
                   init_reply_time, tokAtLastDoc, request, agg, server_id,
                   resumed_once_this_batch>>

\* faulty variant: an aggregate that failed with a resumable-class error is
\* sent again
FailedAggregateRetry(e) ==
    IF IsResumableError(e) /\ cursors_opened < MaxCursors
    THEN /\ sent' = <<sent[Len(sent)]>>
         /\ cursors_opened' = cursors_opened + 1
         /\ reply_err' = ReplyError("aggregate", e, server_id)
         /\ UNCHANGED <<opts, state, op, pc, cursor_id, batch, pos, cursor_pbrt,
                        operation_time, post_batch_token, last_doc_token, err,
                        call_aggregates, call_getmores, ret, retDoc,
                        init_reply_time, tokBefore, tokAtLastDoc,
                        last_returned, call_pbrt, request, agg, server_id,
                        kill_reply, resumed_once_this_batch>>
    ELSE AggregateFatal(e)

\* faulty variant: server selection is tried again after it failed
FailedAggregateReselect(e) ==
    IF e.kind = "selection" /\ cursors_opened < MaxCursors
    THEN /\ sent' = <<sent[Len(sent)]>>
         /\ cursors_opened' = cursors_opened + 1
         /\ reply_err' = ReplyError("aggregate", e, server_id)
         /\ UNCHANGED <<opts, state, op, pc, cursor_id, batch, pos, cursor_pbrt,
                        operation_time, post_batch_token, last_doc_token, err,
                        call_aggregates, call_getmores, ret, retDoc,
                        init_reply_time, tokBefore, tokAtLastDoc,
                        last_returned, call_pbrt, request, agg, server_id,
                        kill_reply, resumed_once_this_batch>>
    ELSE AggregateFatal(e)

\* what the stream does when an aggregate, the first one or a resumed one,
\* fails with e: it is never retried
FailedAggregate(e) == AggregateFatal(e)

AggregateFail ==
    /\ pc = "await_agg"
    /\ \E e \in AggregateErrors : FailedAggregate(e)

(* ------------------------------------------------------------------ *)
(* next(): up to the first command it has to send                      *)
(* ------------------------------------------------------------------ *)

NextCall ==
    /\ pc = "idle"
    /\ op = None
    /\ state \in {"Open", "Errored"}
    /\ call_aggregates' = 0
    /\ CASE StreamFailed(state) ->
              /\ Return("error", None, GetResumeToken, None)
              /\ sent' = <<>>
              /\ call_getmores' = 0
              /\ UNCHANGED <<state, err, pos, post_batch_token,
                             last_doc_token, tokAtLastDoc>>
         [] ~StreamFailed(state) /\ pos < Len(batch) ->
              /\ pos' = pos + 1
              /\ Deliver(SubSeq(batch, pos + 1, Len(batch)), cursor_pbrt,
                         GetResumeToken, None)
              /\ sent' = <<>>
              /\ call_getmores' = 0
         [] ~StreamFailed(state) /\ pos = Len(batch) /\ cursor_id = 0 ->
              /\ Return("no_doc", None, GetResumeToken, None)
              /\ sent' = <<>>
              /\ call_getmores' = 0
              /\ UNCHANGED <<state, err, pos, post_batch_token,
                             last_doc_token, tokAtLastDoc>>
         [] OTHER ->
              /\ sent' = <<GetMore(cursor_id)>>
              /\ call_getmores' = 1
              /\ op' = "next"
              /\ pc' = "await_getmore"
              /\ ret' = None
              /\ retDoc' = None
              /\ tokBefore' = GetResumeToken
              /\ call_pbrt' = None
              /\ UNCHANGED <<state, err, pos, post_batch_token,
                             last_doc_token, tokAtLastDoc, last_returned>>
    /\ UNCHANGED <<opts, cursor_id, batch, cursor_pbrt, operation_time,
                   cursors_opened, init_reply_time, reply_err, request, agg,
                   server_id, kill_reply, resumed_once_this_batch>>

(* ------------------------------------------------------------------ *)
(* the server answers a getMore                                        *)
(* ------------------------------------------------------------------ *)

GetMoreOk ==
    /\ pc = "await_getmore"
    /\ \E exhausted \in BOOLEAN, b \in Batches, p \in ServerTokens \cup {None} :
          /\ cursor_id' = IF exhausted THEN 0 ELSE cursor_id
          /\ batch' = b
          /\ cursor_pbrt' = p
          /\ IF b # <<>>
             THEN /\ pos' = 1
                  /\ Deliver(b, p, tokBefore, LatestPbrt(call_pbrt, p))
             ELSE /\ pos' = 0
                  /\ post_batch_token' = PostBatchAfterEmpty(post_batch_token, p)
                  /\ Return("no_doc", None, tokBefore,
                            LatestPbrt(call_pbrt, p))
                  /\ UNCHANGED <<state, err, last_doc_token, tokAtLastDoc>>
    /\ sent' = <<>>
    /\ resumed_once_this_batch' = ResumedAfterGetMore(resumed_once_this_batch)
    /\ UNCHANGED <<opts, operation_time, cursors_opened, call_aggregates,
                   call_getmores, init_reply_time, reply_err, request, agg,
                   server_id, kill_reply>>

\* a failed getMore is classified: resume (kill the old cursor when the
\* server is still known, then send the aggregate again) or become Errored
\* k is how the killCursors of a resume came back; it is sent, and answered,
\* before the resumed aggregate is sent
GetMoreFail ==
    /\ pc = "await_getmore"
    /\ \E e \in GetMoreErrors, k \in KillReplies :
          LET resumes == /\ ShouldResume(e, call_aggregates)
                         /\ ~resumed_once_this_batch
              kills == resumes /\ ResumeKillsCursor(e)
              kill_error == IF kills THEN KillCursorsError(k) ELSE NoError
          IN  /\ reply_err' = ReplyError("getMore", e, server_id)
              /\ IF resumes /\ kill_error = NoError
                 THEN /\ cursors_opened < MaxCursors
                      /\ resumed_once_this_batch' = TRUE
                      /\ sent' =
                            (IF kills THEN <<KillCursors(cursor_id)>> ELSE <<>>)
                            \o <<ResumeCommand(GetResumeToken, operation_time)>>
                      /\ server_id' \in ResumeServers(request)
                      /\ kill_reply' = IF kills THEN k ELSE None
                      /\ call_aggregates' = call_aggregates + 1
                      /\ cursors_opened' = cursors_opened + 1
                      /\ pc' = "await_agg"
                      /\ UNCHANGED <<state, err, op, ret, retDoc, tokBefore,
                                     last_returned, call_pbrt>>
                 ELSE /\ state' = "Errored"
                      /\ err' = IF kill_error # NoError THEN kill_error ELSE e
                      /\ Return("error", None, tokBefore, call_pbrt)
                      /\ sent' =
                            IF kills \/ FatalKillsCursor(e)
                            THEN <<KillCursors(cursor_id)>> ELSE <<>>
                      /\ UNCHANGED <<cursors_opened, call_aggregates,
                                     server_id, kill_reply,
                                     resumed_once_this_batch>>
    /\ UNCHANGED <<opts, cursor_id, batch, pos, cursor_pbrt, operation_time,
                   post_batch_token, last_doc_token, init_reply_time,
                   tokAtLastDoc, call_getmores, request, agg>>

(* ------------------------------------------------------------------ *)
(* destroy()                                                           *)
(* ------------------------------------------------------------------ *)

\* faulty variant: destroy sends a killCursors whatever the cursor id
DestroyCommandsAlways(id) == <<KillCursors(id)>>

\* what destroy sends for a stream whose cursor id is id
DestroyCommands(id) == IF id # 0 THEN <<KillCursors(id)>> ELSE <<>>

Destroy ==
    /\ pc = "idle"
    /\ op = None
    /\ state \in {"Open", "Errored"}
    /\ sent' = DestroyCommands(cursor_id)
    /\ state' = "Closed"
    /\ cursor_id' = 0
    /\ UNCHANGED <<opts, op, pc, batch, pos, cursor_pbrt, operation_time,
                   post_batch_token, last_doc_token, err, cursors_opened,
                   call_aggregates, call_getmores, ret, retDoc, init_reply_time,
                   tokBefore, tokAtLastDoc, last_returned, call_pbrt,
                   reply_err, request, agg, server_id, kill_reply,
                   resumed_once_this_batch>>

Next ==
    \/ Watch
    \/ AggregateOk
    \/ AggregateFail
    \/ NextCall
    \/ GetMoreOk
    \/ GetMoreFail
    \/ Destroy

Spec == Init /\ [][Next]_vars

\* streams opened with and without a pipeline and options, on a collection or
\* a database, read from the primary or from a secondary, with none or all of
\* the resume selectors
OptionsInit ==
    InitWith({o \in UserOptions :
                 (o.resume_after = None) = (o.start_after = None)
                 /\ (o.resume_after = None) = (o.start_at_operation_time = None)},
             OptionRequests)

OptionsSpec == OptionsInit /\ [][Next]_vars

\* a stream opened without options against a server that answers every
\* command it was sent: with a reply, or with the error of a connection that
\* was closed or timed out
FairInit ==
    InitWith({[resume_after |-> None, start_after |-> None,
               start_at_operation_time |-> None]}, {PlainWatch})

FairSpec ==
    /\ FairInit
    /\ [][Next]_vars
    /\ WF_vars(AggregateOk \/ AggregateFail)
    /\ WF_vars(GetMoreOk \/ GetMoreFail)

(* ------------------------------------------------------------------ *)
(* _mongoc_aggregate                                                   *)
(* ------------------------------------------------------------------ *)

StreamVars ==
    <<opts, state, op, pc, cursor_id, batch, pos, cursor_pbrt, operation_time,
      post_batch_token, last_doc_token, err, cursors_opened, sent,
      call_aggregates, call_getmores, ret, retDoc, init_reply_time, tokBefore,
      tokAtLastDoc, last_returned, call_pbrt, reply_err, request, server_id,
      kill_reply, resumed_once_this_batch>>

\* what _mongoc_aggregate returns: the cursor, also when it failed
ReturnValue(cursor) == "cursor"

\* faulty variant: the server is selected before the parameters are looked at
SelectsServerAlways(e) == TRUE

\* does _mongoc_aggregate go on to select a server when the parameter check
\* ended with e?
SelectsServer(e) == e = NoCursorError

\* the call up to server selection: the command is made, the cursor created,
\* the parameters checked and the read preferences settled
MongocAggregate ==
    /\ agg.pc = "idle"
    /\ \E ns \in AggNamespaces, pipeline \in AggPipelines, o \in AggOpts,
          rp \in AggReadPrefs, append_ok \in BOOLEAN :
          LET made == MakeAggCmd(ns, pipeline, o, append_ok)
              new == CursorCmdNew(made, o, rp)
              e == ParameterError(made, o, rp, pipeline, new)
              hwk == IF e = NoCursorError THEN PipelineHasWriteKey(pipeline)
                     ELSE FALSE
              cursor == [new EXCEPT
                            !.error = e,
                            !.read_prefs =
                               IF e = NoCursorError
                               THEN EffectiveReadPrefs(rp, hwk) ELSE rp]
          IN  /\ append_ok \/ HoldsPipelineArray(pipeline)
              /\ agg' = [pc |-> IF SelectsServer(e) THEN "fetch" ELSE "done",
                         ns |-> ns, pipeline |-> pipeline, opts |-> o,
                         has_write_key |-> hwk, read_prefs |-> rp,
                         cursor |-> cursor,
                         returned |-> IF SelectsServer(e) THEN None
                                      ELSE ReturnValue(cursor),
                         fetches |-> 0, wire |-> 0]
    /\ UNCHANGED StreamVars

\* faulty variant: the default write concern is taken whenever opts has none
InheritsWriteConcernAlways(has_wc, has_write_key) == ~has_wc

\* is the default write concern copied to the cursor?
InheritsWriteConcern(has_wc, has_write_key) == ~has_wc /\ has_write_key

\* faulty variant: the wire version is not looked at
BadWireVersionNever(has_wc, has_write_key, wire) == FALSE

\* does the server's wire version rule out the writeConcern of the call?
BadWireVersion(has_wc, has_write_key, wire) ==
    has_wc /\ has_write_key /\ wire < WIRE_VERSION_CMD_WRITE_CONCERN

\* _mongoc_cursor_fetch_stream came back, with no server or with a server of
\* max wire version w; the call goes on to its return
FetchStream ==
    /\ agg.pc = "fetch"
    /\ \E selected \in BOOLEAN, w \in WireVersions :
          LET c == agg.cursor
              has_wc == agg.opts.writeConcern
              cursor ==
                 CASE ~selected -> [c EXCEPT !.error = SelectionFailedError]
                   [] selected /\ BadWireVersion(has_wc, agg.has_write_key, w)
                        -> [c EXCEPT !.error = BadWireVersionError]
                   [] selected /\ ~BadWireVersion(has_wc, agg.has_write_key, w)
                      /\ InheritsWriteConcern(has_wc, agg.has_write_key)
                        -> [c EXCEPT !.write_concern = "default_wc"]
                   [] OTHER -> c
          IN  /\ selected \/ w = WIRE_VERSION_CMD_WRITE_CONCERN
              /\ agg' = [agg EXCEPT
                            !.pc = "done",
                            !.cursor = cursor,
                            !.returned = ReturnValue(cursor),
                            !.fetches = agg.fetches + 1,
                            !.wire = IF selected THEN w ELSE 0]
    /\ UNCHANGED StreamVars

\* mongoc_cursor_destroy: the caller frees the cursor it was given
CursorDestroy ==
    /\ agg.pc = "done"
    /\ agg' = AggIdle
    /\ UNCHANGED StreamVars

AggNext ==
    \/ MongocAggregate
    \/ FetchStream
    \/ CursorDestroy

\* calls of _mongoc_aggregate on a client whose change stream is not opened
AggInit ==
    InitWith({[resume_after |-> None, start_after |-> None,
               start_at_operation_time |-> None]}, {PlainWatch})

AggSpec == AggInit /\ [][AggNext]_vars

(* ------------------------------------------------------------------ *)
(* What the server and the caller observe                              *)
(* ------------------------------------------------------------------ *)

\* a running next has just sent a resumed aggregate
ResumeSent == pc = "await_agg" /\ op = "next"

\* the aggregate command of the latest step
ResumedAggregate == sent[Len(sent)]

\* how many of resumeAfter, startAfter, startAtOperationTime a command carries
SelectorCount(c) ==
    Cardinality({f \in {"resumeAfter", "startAfter", "startAtOperationTime"} :
                    c[f] # None})

\* the most recent next ended by surfacing the error of a failed getMore
GetMoreErrorSurfaced ==
    /\ pc = "idle"
    /\ ret = "error"
    /\ call_getmores = call_aggregates + 1
    /\ err.kind \in {"server", "hangup"}

\* this step is a next handing a document to the caller
ReturnsDoc ==
    /\ pc' = "idle"
    /\ ret' = "doc"
    /\ state' = "Open"
    /\ \/ pc # "idle" /\ op = "next"
       \/ pc = "idle" /\ state = "Open" /\ pos' = pos + 1

(* ------------------------------------------------------------------ *)
(* C1  single resume                                                   *)
(* ------------------------------------------------------------------ *)

C2_PostBatchTokenPriority ==
    (ResumeSent /\ cursor_pbrt # None /\ AtBatchBoundary)
        => ResumedAggregate = Aggregate(cursor_pbrt, None, None)

\* a resume with a post-batch token that differs from the last document's
\* token, on a stream opened with every user option
C2_Witness ==
    /\ ResumeSent
    /\ cursor_pbrt # None
    /\ last_returned # None
    /\ last_returned # cursor_pbrt
    /\ opts.resume_after # None
    /\ opts.start_after # None
    /\ opts.start_at_operation_time # None
    /\ ResumedAggregate.resumeAfter = cursor_pbrt

(* ------------------------------------------------------------------ *)
(* C3  last-document token                                             *)
(* ------------------------------------------------------------------ *)

\* C3: with no post-batch token held and a document returned, the resumed
\* aggregate carries exactly resumeAfter = the _id of the document returned
\* last, whatever the user options.
C3_LastDocumentToken ==
    (ResumeSent /\ post_batch_token = None /\ last_returned # None)
        => ResumedAggregate = Aggregate(last_returned, None, None)

\* such a resume on a stream opened with every user option
C3_Witness ==
    /\ ResumeSent
    /\ post_batch_token = None
    /\ last_returned # None
    /\ opts.resume_after # None
    /\ opts.start_after # None
    /\ opts.start_at_operation_time # None
    /\ ResumedAggregate.resumeAfter = last_returned

(* ------------------------------------------------------------------ *)
(* C4  user-token fallback                                             *)
(* ------------------------------------------------------------------ *)

C5_OperationTimeFallback ==
    (/\ ResumeSent
     /\ opts.resume_after = None
     /\ opts.start_after = None
     /\ opts.start_at_operation_time = None
     /\ last_returned = None
     /\ post_batch_token = None)
        => ResumedAggregate = Aggregate(None, None, init_reply_time)

\* such a resume after an initial reply that carried an operationTime
C5_Witness ==
    /\ ResumeSent
    /\ opts.resume_after = None
    /\ opts.start_after = None
    /\ opts.start_at_operation_time = None
    /\ last_returned = None
    /\ post_batch_token = None
    /\ init_reply_time # None
    /\ ResumedAggregate.startAtOperationTime = init_reply_time

(* ------------------------------------------------------------------ *)
(* C6  precedence of the two operation times                           *)
(* ------------------------------------------------------------------ *)

\* the user supplied start_at_operation_time, the initial reply carried an
\* operationTime, no token is available, and the stream has just resumed
TwoOperationTimes ==
    /\ ResumeSent
    /\ opts.start_at_operation_time # None
    /\ init_reply_time # None
    /\ GetResumeToken = None

\* C6 as stated: in that case the resumed aggregate carries
\* startAtOperationTime = the operationTime of the initial reply.
C6_ReplyTimeWins ==
    TwoOperationTimes => ResumedAggregate.startAtOperationTime = init_reply_time

\* C6, amended: in that case the resumed aggregate carries exactly
\* startAtOperationTime = the user-supplied value, not the reply's.
C6_UserTimeWins ==
    TwoOperationTimes
        => ResumedAggregate = Aggregate(None, None, opts.start_at_operation_time)

\* such a resume, the two operation times being different
C6_Witness ==
    /\ TwoOperationTimes
    /\ init_reply_time # opts.start_at_operation_time
    /\ ResumedAggregate.startAtOperationTime = opts.start_at_operation_time

(* ------------------------------------------------------------------ *)
(* C7  one selector per resumed aggregate                              *)
(* ------------------------------------------------------------------ *)

\* C7 as stated: every resumed aggregate carries exactly one of resumeAfter,
\* startAfter, startAtOperationTime.
C7_ExactlyOneSelector ==
    ResumeSent => SelectorCount(ResumedAggregate) = 1

\* C7, amended: every resumed aggregate carries at most one of the three, and
\* none exactly when the stream holds neither a resume token nor an
\* operation time.
C7_AtMostOneSelector ==
    ResumeSent =>
        /\ SelectorCount(ResumedAggregate) <= 1
        /\ SelectorCount(ResumedAggregate) = 0
              <=> (GetResumeToken = None /\ operation_time = None)

\* a resume of a stream opened with no options, whose initial reply carried
\* neither operationTime nor postBatchResumeToken, and that returned no
\* document: the resumed aggregate carries no selector
C7_Witness ==
    /\ ResumeSent
    /\ opts.resume_after = None
    /\ opts.start_after = None
    /\ opts.start_at_operation_time = None
    /\ init_reply_time = None
    /\ cursor_pbrt = None
    /\ last_returned = None
    /\ SelectorCount(ResumedAggregate) = 0

(* ------------------------------------------------------------------ *)
(* C8  empty-poll preservation                                         *)
(* ------------------------------------------------------------------ *)

\* the most recent next returned no document and no error
EmptyPoll == pc = "idle" /\ ret = "no_doc"

EndsBatchWithPbrt == pos' = Len(batch') /\ cursor_pbrt' # None

C10_LastDocTokenAndOrder ==
    [][/\ last_doc_token' = last_returned'
       /\ ReturnsDoc =>
             /\ last_doc_token' = retDoc'
             /\ retDoc' = batch'[pos']
             /\ \/ pc = "idle" /\ batch' = batch /\ pos' = pos + 1
                \/ pc # "idle" /\ pos' = 1
       /\ pc' # "idle"
             => /\ last_doc_token = last_returned
                /\ last_doc_token' = last_doc_token]_vars

\* the second document of a two-document batch was returned and a getMore
\* for the following document has been sent
C10_Witness ==
    /\ pc = "await_getmore"
    /\ Len(batch) = 2
    /\ pos = 2
    /\ batch[1] # batch[2]
    /\ last_returned = batch[2]
    /\ last_doc_token = batch[2]
    /\ sent = <<GetMore(cursor_id)>>

(* ------------------------------------------------------------------ *)
(* C11  sticky fatal state                                             *)
(* ------------------------------------------------------------------ *)

\* the commands of the latest step are killCursors only
NoCursorCommandSent == \A i \in 1..Len(sent) : sent[i].cmd = "killCursors"

\* C11: every step of an Errored stream keeps the error, sends neither an
\* aggregate nor a getMore and, unless it destroys the stream, is a next that
\* returns no document and reports the error.
C11_StickyError ==
    [][state = "Errored" =>
          /\ state' \in {"Errored", "Closed"}
          /\ err' = err
          /\ NoCursorCommandSent'
          /\ state' = "Errored" =>
                (pc' = "idle" /\ ret' = "error" /\ retDoc' = None)]_vars

\* a stream that failed on a getMore with code 11601 was asked again: that
\* next sent nothing and reports the same error
C11_Witness ==
    /\ state = "Errored"
    /\ err = ServerError(11601, "interrupted")
    /\ ret = "error"
    /\ call_getmores = 0
    /\ sent = <<>>

(* ------------------------------------------------------------------ *)
(* C12  no resume on the first open                                    *)
(* ------------------------------------------------------------------ *)

\* the only aggregate sent so far, the initial one, has failed
OpenFailed == reply_err.cmd = "aggregate" /\ cursors_opened = 1

\* C12: while watch runs exactly one aggregate has been sent; when it fails,
\* with whatever error, the stream is Errored with that error, no further
\* aggregate is sent, and a following next returns that error.
C12_NoResumeOnOpen ==
    /\ op = "watch" =>
          /\ cursors_opened = 1
          /\ sent = <<InitialCommand(opts)>>
          /\ reply_err = NoReplyError
    /\ OpenFailed =>
          /\ state \in {"Errored", "Closed"}
          /\ err = reply_err.error
          /\ pc = "idle"
          /\ ret \in {None, "error"}
          /\ retDoc = None
          /\ NoCursorCommandSent

\* the initial aggregate failed with the resumable-class code 10107 and the
\* following next returned that error
C12_Witness ==
    /\ OpenFailed
    /\ state = "Errored"
    /\ err = ServerError(10107, "not master")
    /\ ret = "error"

(* ------------------------------------------------------------------ *)
(* C13  a failed resume is terminal                                    *)
(* ------------------------------------------------------------------ *)

\* an aggregate sent by a resume has failed
ResumeFailed == reply_err.cmd = "aggregate" /\ cursors_opened > 1

\* C13: when a resumed aggregate fails, next returns no document, the stream
\* reports that failure as the server sent it, and no further aggregate is
\* sent.
C13_FailedResumeTerminal ==
    /\ ResumeSent => reply_err.cmd = "getMore"
    /\ ResumeFailed =>
          /\ state \in {"Errored", "Closed"}
          /\ err = reply_err.error
          /\ err \in AggregateErrors
          /\ pc = "idle"
          /\ ret = "error"
          /\ retDoc = None
          /\ NoCursorCommandSent

\* a resumed aggregate failed with code 10107, which is not on the denylist,
\* and the call that resumed returned that error
C13_Witness ==
    /\ ResumeFailed
    /\ state = "Errored"
    /\ err = ServerError(10107, "not master")
    /\ call_aggregates = 1
    /\ call_getmores = 1
    /\ ret = "error"

(* ------------------------------------------------------------------ *)
(* C14  missing resume token                                           *)
(* ------------------------------------------------------------------ *)

\* the event consumed last has no document-typed _id
TokenlessEventConsumed == pos >= 1 /\ batch[pos] = NoId

\* C14: once an event without a document-typed _id has been consumed, the
\* stream is Errored with the NoResumeToken error, the next that consumed it
\* and every later next return no document and that error, and no aggregate
\* or getMore is sent.
C14_MissingResumeToken ==
    TokenlessEventConsumed =>
        /\ state \in {"Errored", "Closed"}
        /\ err = NoResumeTokenError
        /\ pc = "idle"
        /\ ret = "error"
        /\ retDoc = None
        /\ last_returned # NoId
        /\ NoCursorCommandSent

\* the first event of a getMore batch had no usable _id; the stream recorded
\* the error and a later next returned it again without sending anything
C14_Witness ==
    /\ TokenlessEventConsumed
    /\ state = "Errored"
    /\ pos = 1
    /\ cursors_opened >= 2
    /\ call_getmores = 0
    /\ ret = "error"
    /\ err = NoResumeTokenError

(* ------------------------------------------------------------------ *)
(* C15  non-resumable denylist                                         *)
(* ------------------------------------------------------------------ *)

\* the command that failed last is a getMore
GetMoreFailed == reply_err.cmd = "getMore"

\* the error that getMore came back with
GetMoreError == reply_err.error

\* the getMore reply carried a code
CodedGetMoreError ==
    GetMoreFailed /\ GetMoreError.kind = "server" /\ GetMoreError.code # 0

\* the stream reports the getMore error and the call returned no document
GetMoreErrorReturned ==
    /\ state \in {"Errored", "Closed"}
    /\ err = GetMoreError
    /\ pc = "idle"
    /\ ret = "error"
    /\ retDoc = None
    /\ NoCursorCommandSent

\* the stream has resumed: a killCursors for the failed cursor when kill is
\* TRUE, then the resumed aggregate, and nothing else
Resumed(kill) ==
    /\ ResumeSent
    /\ sent = (IF kill THEN <<KillCursors(cursor_id)>> ELSE <<>>)
              \o <<ResumeCommand(GetResumeToken, operation_time)>>

\* C15: after a getMore reply with code 11601, 136 or 237, on whichever
\* cursor, next has returned no document, the stream reports that error and
\* no aggregate is sent.
C15_Denylist ==
    (CodedGetMoreError /\ GetMoreError.code \in {11601, 136, 237})
        => GetMoreErrorReturned

\* code 136 arrived on a cursor opened by an earlier resume of the same call
C15_Witness ==
    /\ GetMoreFailed
    /\ GetMoreError = ServerError(136, "capped position lost")
    /\ call_aggregates >= 1
    /\ state = "Errored"
    /\ ret = "error"

(* ------------------------------------------------------------------ *)
(* C16  classifier rule 5                                              *)
(* ------------------------------------------------------------------ *)

\* the getMore reply carried a code that is not on the denylist
OtherCodeGetMoreError ==
    CodedGetMoreError /\ GetMoreError.code \notin {11601, 136, 237}

\* C16 as stated: after every getMore reply with a non-zero code off the
\* denylist the stream resumes with a killCursors before the aggregate.
C16_EveryCodeKills ==
    OtherCodeGetMoreError => Resumed(TRUE)

\* C16, amended: after every getMore reply with a non-zero code off the
\* denylist the stream resumes; a killCursors precedes the aggregate except
\* for the not-master reply, code 10107, which resumes without one.
C16_OtherCodesResume ==
    OtherCodeGetMoreError => Resumed(GetMoreError.code # 10107)

\* a resume after the not-master reply: the aggregate is the only command
C16_Witness ==
    /\ GetMoreFailed
    /\ GetMoreError = ServerError(10107, "not master")
    /\ ResumeSent
    /\ Len(sent) = 1
    /\ sent[1].cmd = "aggregate"

(* ------------------------------------------------------------------ *)
(* C17  kill-on-resume ordering                                        *)
(* ------------------------------------------------------------------ *)

\* the getMore errors whose resume kills the failed cursor
KillClassError ==
    CodedGetMoreError /\ GetMoreError.code \in {1, 6, 12345}

\* C17: in every resume the commands sent after the failing getMore are the
\* resumed aggregate, preceded by a killCursors for the failed cursor exactly
\* when the error is of the kill class; for a hang-up, a codeless not-master
\* reply and code 10107 the aggregate is the first command.
C17_KillBeforeAggregate ==
    ResumeSent =>
        /\ GetMoreFailed
        /\ sent[Len(sent)].cmd = "aggregate"
        /\ IF KillClassError
           THEN /\ Len(sent) = 2
                /\ sent[1] = KillCursors(cursor_id)
                /\ cursor_id # 0
           ELSE Len(sent) = 1

\* a resume after code 6: killCursors for the failed cursor, then aggregate
C17_Witness ==
    /\ ResumeSent
    /\ GetMoreError = ServerError(6, "host unreachable")
    /\ sent[1] = KillCursors(cursor_id)
    /\ sent[2].cmd = "aggregate"
    /\ call_aggregates = 2

(* ------------------------------------------------------------------ *)
(* C18  classifier rule 3                                              *)
(* ------------------------------------------------------------------ *)

\* the getMore reply carried no code
CodelessGetMoreError ==
    GetMoreFailed /\ GetMoreError.kind = "server" /\ GetMoreError.code = 0

GetMoreHungUp == GetMoreFailed /\ GetMoreError = HangUp

SelectionFailed == reply_err.error.kind = "selection"

\* C20: after server selection failed, for the initial aggregate or for a
\* resumed one, the stream is Errored with that error, nothing is sent
\* again, and next returns no document with the error reported.
C20_SelectionFailureFatal ==
    SelectionFailed =>
        /\ reply_err.cmd = "aggregate"
        /\ state \in {"Errored", "Closed"}
        /\ err = reply_err.error
        /\ pc = "idle"
        /\ ret \in {None, "error"}
        /\ ResumeFailed => ret = "error"
        /\ retDoc = None
        /\ NoCursorCommandSent

\* server selection failed during a resume and the call returned the error
C20_Witness ==
    /\ SelectionFailed
    /\ ResumeFailed
    /\ state = "Errored"
    /\ err.errmsg = "No suitable servers found"
    /\ ret = "error"

(* ------------------------------------------------------------------ *)
(* C21  the killCursors of a resume is best-effort                     *)
(* ------------------------------------------------------------------ *)

\* C21: whatever the killCursors of a resume came back with (cursor killed,
\* error reply, connection closed), the resumed aggregate is sent right after
\* it and the stream holds no error; the error of a killCursors is never the
\* error the stream reports.
C21_KillCursorsBestEffort ==
    /\ err # CursorNotFound
    /\ (ResumeSent /\ KillClassError) => kill_reply \in KillReplies
    /\ kill_reply # None =>
          /\ ResumeSent
          /\ sent = <<KillCursors(cursor_id),
                      ResumeCommand(GetResumeToken, operation_time)>>
          /\ state = "Open"
          /\ err = NoError
          /\ ret = None

\* the killCursors of a resume came back with an error reply and the resumed
\* aggregate has been sent
C21_Witness ==
    /\ kill_reply = "error"
    /\ ResumeSent
    /\ Len(sent) = 2
    /\ sent[2].cmd = "aggregate"
    /\ err = NoError

(* ------------------------------------------------------------------ *)
(* C22  destroy                                                        *)
(* ------------------------------------------------------------------ *)

\* this step destroys the stream
Destroys == state # "Closed" /\ state' = "Closed"

\* C22: a step that destroys the stream sends exactly one killCursors, naming
\* the stream's cursor id, when that id is not zero, and nothing when it is
\* zero; a non-zero id is the id of the cursor opened last, also on an Errored
\* stream; and a Closed stream takes no further step.
C22_DestroyKillsCursor ==
    [][/\ Destroys =>
             /\ cursor_id # 0 =>
                   /\ Len(sent') = 1
                   /\ sent'[1].cmd = "killCursors"
                   /\ sent'[1].cursor = cursor_id
                   /\ cursor_id = cursors_opened
             /\ cursor_id = 0 => sent' = <<>>
       /\ state = "Closed" => FALSE]_vars

\* a stream that resumed and then failed on a getMore with code 11601 was
\* destroyed: the killCursors names the cursor the resume opened
C22_Witness ==
    /\ state = "Closed"
    /\ err = ServerError(11601, "interrupted")
    /\ cursors_opened = 2
    /\ sent = <<KillCursors(2)>>

(* ------------------------------------------------------------------ *)
(* C23  resume preserves the original request                          *)
(* ------------------------------------------------------------------ *)

\* command c with the resume selectors of command d
WithSelectorsOf(c, d) ==
    [c EXCEPT !.resumeAfter = d.resumeAfter,
              !.startAfter = d.startAfter,
              !.startAtOperationTime = d.startAtOperationTime]

C24_OptionRouting ==
    \A i \in 1..Len(sent) :
        /\ sent[i].cmd = "getMore" =>
              /\ sent[i].maxTimeMS = request.max_await_time_ms
              /\ sent[i].batchSize = request.batch_size
              /\ sent[i].cursor = cursors_opened
              /\ sent[i].cursor # 0
        /\ sent[i].cmd = "aggregate" =>
              /\ sent[i].maxTimeMS = None
              /\ sent[i].batchSize = request.batch_size

\* the getMore on the cursor a resume opened, of a stream created with
\* maxAwaitTimeMS 5000 and batchSize 5
C24_Witness ==
    /\ pc = "await_getmore"
    /\ request = OptionsWatch
    /\ cursors_opened = 2
    /\ Len(sent) = 1
    /\ sent[1].cmd = "getMore"
    /\ sent[1].cursor = 2
    /\ sent[1].maxTimeMS = "5000"
    /\ sent[1].batchSize = "5"

(* ------------------------------------------------------------------ *)
(* C25  the initial aggregate forwards the selectors verbatim          *)
(* ------------------------------------------------------------------ *)

\* watch has sent the initial aggregate and awaits its reply
OpenSent == op = "watch" /\ pc = "await_agg"

\* C25: the aggregate watch sends carries resumeAfter, startAfter and
\* startAtOperationTime exactly as the user supplied them, each absent when
\* not supplied and all three together when all were supplied; no combination
\* is rejected locally: a stream leaves Initial only by sending that
\* aggregate and holds no error until a reply brought one.
C25_InitialSelectorsVerbatim ==
    /\ OpenSent =>
          /\ Len(sent) = 1
          /\ sent[1].cmd = "aggregate"
          /\ sent[1].resumeAfter = opts.resume_after
          /\ sent[1].startAfter = opts.start_after
          /\ sent[1].startAtOperationTime = opts.start_at_operation_time
          /\ state = "Initial"
          /\ err = NoError
    /\ (state # "Initial" \/ err # NoError) => cursors_opened >= 1
    /\ (state = "Initial" /\ cursors_opened >= 1) => OpenSent

\* the initial aggregate of a stream created with all three selectors
C25_Witness ==
    /\ OpenSent
    /\ opts.resume_after = "opt_ra"
    /\ opts.start_after = "opt_sa"
    /\ opts.start_at_operation_time = "opt_op"
    /\ sent[1].resumeAfter = "opt_ra"
    /\ sent[1].startAfter = "opt_sa"
    /\ sent[1].startAtOperationTime = "opt_op"

(* ------------------------------------------------------------------ *)
(* C26  pipeline assembly                                              *)
(* ------------------------------------------------------------------ *)

\* the user pipelines considered: up to two stages, documents or not
UserStageSeqs == SeqsUpTo({ProjectStage, MatchStage, IntStage}, 2)

\* the two forms in which the stages ss can be handed to watch
PipelineForms(ss) == {PipelineDoc(ss), ArrayDoc(ss)}

\* C26: whichever of the two forms the user's stages were given in, every
\* aggregate the stream sends, initial or resumed, has the pipeline
\* [$changeStream, s1, .., sn] with the user's stages in their order, a stage
\* that is not a document included; the aggregate is sent whatever the stages.
C26_PipelineAssembly ==
    /\ \E ss \in UserStageSeqs : request.pipeline \in PipelineForms(ss)
    /\ \A ss \in UserStageSeqs :
          request.pipeline \in PipelineForms(ss) =>
              /\ ChangeStreamPipeline(PipelineDoc(ss))
                    = ChangeStreamPipeline(ArrayDoc(ss))
              /\ \A i \in 1..Len(sent) :
                    sent[i].cmd = "aggregate" =>
                        /\ sent[i].pipeline[1] = ChangeStreamStage
                        /\ sent[i].pipeline = <<ChangeStreamStage>> \o ss
    /\ (OpenSent \/ ResumeSent) => sent[Len(sent)].cmd = "aggregate"

\* a resumed aggregate of a stream whose pipeline was given as the
\* array-shaped document {"0": {$project}, "1": 42}
C26_Witness ==
    /\ ResumeSent
    /\ request.pipeline = ArrayDoc(<<ProjectStage, IntStage>>)
    /\ ResumedAggregate.pipeline = <<ChangeStreamStage, ProjectStage, IntStage>>

(* ------------------------------------------------------------------ *)
(* C29  server selection on resume                                     *)
(* ------------------------------------------------------------------ *)

\* C29: the resumed aggregate goes to a server the read preference of the
\* original open selects, a secondary for a stream opened with mode
\* secondary, whichever such server the failed cursor was on; and the cursor
\* the stream holds after the resume is not the failed one: the failed
\* cursor's id is not zero and older than the new cursor's, and once the reply
\* is in the stream holds the new id, or zero.
C29_ResumeReadPreference ==
    /\ ResumeSent =>
          /\ request.read_mode = "secondary"
                => server_id \in {"secondary1", "secondary2"}
          /\ request.read_mode = "primary" => server_id = "primary"
          /\ reply_err.server # None
          /\ cursor_id # 0
          /\ cursor_id < cursors_opened
    /\ (state = "Open" /\ pc # "await_agg") => cursor_id \in {0, cursors_opened}

\* the getMore failed on one secondary and the resumed aggregate went to the
\* other one
C29_Witness ==
    /\ ResumeSent
    /\ request.read_mode = "secondary"
    /\ reply_err.server = "secondary1"
    /\ server_id = "secondary2"

(* ------------------------------------------------------------------ *)
(* C30  eager open                                                     *)
(* ------------------------------------------------------------------ *)

C27_AggregateTarget ==
    (agg.pc # "idle" /\ agg.cursor.has_command) =>
       LET ns == agg.ns
           target == agg.cursor.command.aggregate
       IN  IF \E i \in 1..Len(ns) : ns[i] = "."
           THEN /\ target.type = "utf8"
                /\ \E i \in 1..Len(ns) :
                      /\ ns[i] = "."
                      /\ \A j \in 1..(i - 1) : ns[j] # "."
                      /\ target.value = [k \in 1..(Len(ns) - i) |-> ns[i + k]]
           ELSE target = [type |-> "int32", value |-> <<"1">>]

\* a command was built for a collection whose name holds a "."
C27_Witness ==
    /\ agg.pc = "done"
    /\ agg.cursor.has_command
    /\ agg.ns = <<"db", ".", "a", ".", "b">>
    /\ agg.cursor.command.aggregate.value = <<"a", ".", "b">>

(* ------------------------------------------------------------------ *)
(* C28  _mongoc_aggregate always returns its cursor                    *)
(* ------------------------------------------------------------------ *)

\* C28: whenever _mongoc_aggregate has returned it has returned a cursor; and
\* when the command could not be built, serverId or another option is
\* invalid, the read preferences are invalid or the pipeline is invalid BSON,
\* that cursor carries an error and no server selection was made during the
\* call.
C28_AlwaysReturnsCursor ==
    agg.pc = "done" =>
       /\ agg.returned = "cursor"
       /\ agg.fetches \in {0, 1}
       /\ (\/ ~agg.cursor.has_command
           \/ ~agg.opts.serverId_ok
           \/ ~agg.opts.rest_ok
           \/ ~agg.cursor.read_prefs.valid
           \/ agg.pipeline = InvalidBson) =>
             /\ agg.cursor.error.domain # None
             /\ agg.cursor.error.domain # "SERVER_SELECTION"
             /\ agg.fetches = 0
             /\ agg.wire = 0
       /\ ~agg.cursor.has_command => agg.cursor.error.domain = "COMMAND"
       /\ (agg.cursor.has_command /\ ~agg.opts.serverId_ok)
             => agg.cursor.error.domain = "COMMAND"
       /\ (/\ agg.opts.serverId_ok /\ agg.opts.rest_ok
           /\ agg.cursor.read_prefs.valid /\ agg.pipeline = InvalidBson)
             => agg.cursor.error.domain = "BSON"

\* the call was given a pipeline that is invalid BSON and returned a cursor
\* with that error, having selected no server
C28_Witness ==
    /\ agg.pc = "done"
    /\ agg.pipeline = InvalidBson
    /\ agg.returned = "cursor"
    /\ agg.cursor.error.code = "BSON_INVALID"
    /\ agg.fetches = 0

(* ------------------------------------------------------------------ *)
(* C34  the cursor subdocument                                         *)
(* ------------------------------------------------------------------ *)

\* the pipeline argument holds a document stage with an "$out" or a "$merge"
\* key
ContainsWriteStage(pipeline) ==
    LET stages == IF pipeline = InvalidBson THEN <<>>
                  ELSE StagesOf(PipelineArray(pipeline))
    IN  \E i \in 1..Len(stages) :
           /\ stages[i].type = "document"
           /\ \E k \in 1..Len(stages[i].value) :
                 stages[i].value[k] \in {"$out", "$merge"}

\* the number v is the 32-bit integer n: it has no fraction and its high
\* half only extends the sign of n
IsNumber(v, n) ==
    /\ v.type \in {"int32", "int64", "double"}
    /\ ~v.frac
    /\ v.lo = n
    /\ v.hi = (IF n < 0 THEN -1 ELSE 0)

\* C34: every command _make_agg_cmd builds has a cursor subdocument; it holds
\* batchSize = N, and nothing else, when opts holds a numeric batchSize N,
\* unless N is 0 and the pipeline has a $out or $merge stage; in every other
\* case it is empty.
C34_BatchSizeVerbatim ==
    (agg.pc # "idle" /\ agg.cursor.has_command) =>
       LET N == agg.opts.batchSize
           sub == agg.cursor.command.cursor
           numeric == N.type \in {"int32", "int64", "double"}
       IN  IF numeric
              /\ ~(IsNumber(N, 0) /\ ContainsWriteStage(agg.pipeline))
           THEN /\ Len(sub) = 1
                /\ sub[1].key = "batchSize"
                /\ IsNumber(N, sub[1].value[1])
           ELSE sub = <<>>

\* what the code does: the subdocument holds the low 32 bits of N, a
\* fraction dropped, as an int32; with a $out or $merge stage it is empty
\* when those bits are 0; it is empty when N is absent or no number.
C34_BatchSizeTruncated ==
    (agg.pc # "idle" /\ agg.cursor.has_command) =>
       LET N == agg.opts.batchSize
           sub == agg.cursor.command.cursor
           numeric == N.type \in {"int32", "int64", "double"}
       IN  /\ (numeric /\ ~(N.lo = 0 /\ ContainsWriteStage(agg.pipeline)))
                => sub = <<[key |-> "batchSize", type |-> "int32",
                            value |-> <<N.lo>>]>>
           /\ (~numeric \/ (N.lo = 0 /\ ContainsWriteStage(agg.pipeline)))
                => sub = <<>>
           /\ (N.type = "int32" /\ sub # <<>>) => IsNumber(N, sub[1].value[1])

\* a command was built for the int64 batchSize 2^32 and carries batchSize 0
C34_Witness ==
    /\ agg.pc = "done"
    /\ agg.cursor.has_command
    /\ agg.opts.batchSize = [type |-> "int64", hi |-> 1, lo |-> 0, frac |-> FALSE]
    /\ agg.cursor.command.cursor =
          <<[key |-> "batchSize", type |-> "int32", value |-> <<0>>]>>

(* ------------------------------------------------------------------ *)
(* C35  _has_write_key                                                 *)
(* ------------------------------------------------------------------ *)

\* the last element of the pipeline is a $out or a $merge stage
LastStageWrites(pipeline) ==
    LET stages == StagesOf(PipelineArray(pipeline))
    IN  /\ stages # <<>>
        /\ stages[Len(stages)].type = "document"
        /\ \E k \in 1..Len(stages[Len(stages)].value) :
              stages[Len(stages)].value[k] \in {"$out", "$merge"}

\* C35: for every pipeline, of document and other stages, _has_write_key is
\* true exactly when the last stage of the pipeline is $out or $merge.
C35_LastStageOnly ==
    agg.pc = "fetch" => (agg.has_write_key <=> LastStageWrites(agg.pipeline))

\* what the code does: _has_write_key is true exactly when some document
\* stage of the pipeline, the last one or not, holds $out or $merge
C35_AnyStage ==
    agg.pc = "fetch" => (agg.has_write_key <=> ContainsWriteStage(agg.pipeline))

\* _has_write_key was true for a pipeline that ends with a $project stage
C35_Witness ==
    /\ agg.pc = "fetch"
    /\ agg.pipeline = ArrayDoc(<<OutStage, ProjectStage>>)
    /\ agg.has_write_key
    /\ ~LastStageWrites(agg.pipeline)

(* ------------------------------------------------------------------ *)
(* C36  read preference of a pipeline that writes                      *)
(* ------------------------------------------------------------------ *)

\* C36: whenever _mongoc_aggregate selects a server, at the selection and
\* after it, the cursor's read preference is primary when the pipeline has a
\* $out or $merge stage and the call's read-preference mode was not primary,
\* and it is the call's read preference, unchanged, when the pipeline has no
\* such stage.
C36_WriteStageReadsPrimary ==
    (agg.pc = "fetch" \/ agg.fetches = 1) =>
       /\ (ContainsWriteStage(agg.pipeline) /\ agg.read_prefs.mode # "primary")
             => agg.cursor.read_prefs = [mode |-> "primary", valid |-> TRUE]
       /\ ~ContainsWriteStage(agg.pipeline)
             => agg.cursor.read_prefs = agg.read_prefs

\* a call with mode secondary and a $merge stage is about to select a server
\* with read preference primary
C36_Witness ==
    /\ agg.pc = "fetch"
    /\ agg.read_prefs.mode = "secondary"
    /\ agg.pipeline = PipelineDoc(<<ProjectStage, MergeStage>>)
    /\ agg.cursor.read_prefs.mode = "primary"

(* ------------------------------------------------------------------ *)
(* C37  inheriting the default write concern                           *)
(* ------------------------------------------------------------------ *)

\* C37: when _mongoc_aggregate has returned, the cursor has the default write
\* concern of the collection or database exactly when the pipeline has a $out
\* or $merge stage, opts has no writeConcern and a server was selected; and at
\* any time a pipeline without a write stage has not inherited it and a
\* writeConcern of opts is the cursor's.
C37_WriteConcernInheritance ==
    /\ agg.pc = "done" =>
          (agg.cursor.write_concern = "default_wc"
             <=> /\ ContainsWriteStage(agg.pipeline)
                 /\ ~agg.opts.writeConcern
                 /\ agg.fetches = 1
                 /\ agg.wire # 0)
    /\ (agg.pc # "idle" /\ ~ContainsWriteStage(agg.pipeline))
          => agg.cursor.write_concern # "default_wc"
    /\ (agg.pc # "idle" /\ agg.opts.writeConcern)
          => agg.cursor.write_concern = "opts"

\* a call with a $out stage and no writeConcern returned a cursor with the
\* default write concern
C37_Witness ==
    /\ agg.pc = "done"
    /\ agg.pipeline = ArrayDoc(<<OutStage>>)
    /\ ~agg.opts.writeConcern
    /\ agg.wire # 0
    /\ agg.cursor.write_concern = "default_wc"

(* ------------------------------------------------------------------ *)
(* C38  writeConcern on a server too old for it                        *)
(* ------------------------------------------------------------------ *)

\* C38: when _mongoc_aggregate has returned after selecting a server whose
\* max wire version is below WIRE_VERSION_CMD_WRITE_CONCERN, for a call with
\* a writeConcern in opts and a $out or $merge stage, the cursor it returned
\* carries the COMMAND / BAD_WIRE_VERSION error; and a cursor carries that
\* error in no other case: not without a write stage, not without a
\* writeConcern, not at that wire version or above.
C38_BadWireVersion ==
    agg.pc = "done" =>
       /\ (/\ agg.opts.writeConcern
           /\ ContainsWriteStage(agg.pipeline)
           /\ agg.wire # 0
           /\ agg.wire < WIRE_VERSION_CMD_WRITE_CONCERN) =>
             /\ agg.cursor.error.domain = "COMMAND"
             /\ agg.cursor.error.code = "PROTOCOL_BAD_WIRE_VERSION"
             /\ agg.returned = "cursor"
       /\ agg.cursor.error.code = "PROTOCOL_BAD_WIRE_VERSION" =>
             /\ agg.opts.writeConcern
             /\ ContainsWriteStage(agg.pipeline)
             /\ agg.fetches = 1
             /\ agg.wire # 0
             /\ agg.wire < WIRE_VERSION_CMD_WRITE_CONCERN

\* a call with a writeConcern and a $out stage met a server one wire version
\* too old and returned its cursor with the error
C38_Witness ==
    /\ agg.pc = "done"
    /\ agg.opts.writeConcern
    /\ agg.pipeline = PipelineDoc(<<OutStage>>)
    /\ agg.wire = WIRE_VERSION_CMD_WRITE_CONCERN - 1
    /\ agg.cursor.error.code = "PROTOCOL_BAD_WIRE_VERSION"
    /\ agg.returned = "cursor"

(* ------------------------------------------------------------------ *)
(* C39  how long a call to next runs                                   *)
(* ------------------------------------------------------------------ *)

FatalGetMoreError ==
    /\ CodedGetMoreError
    /\ GetMoreError.code \in {11601, 136, 237}
    /\ state = "Errored"

\* C40 as stated: when a getMore error is classified fatal, a killCursors is
\* sent for code 136 and none for 11601 and 237, and the cursor id is kept.
C40_KillsCursorAt136 ==
    FatalGetMoreError =>
       /\ GetMoreError.code = 136 => sent = <<KillCursors(cursor_id)>>
       /\ GetMoreError.code # 136 => sent = <<>>
       /\ cursor_id # 0

\* C40, amended: when a getMore error is classified fatal, whether its code
\* is 136, 11601 or 237, no command is sent: the stream keeps the id of the
\* cursor the getMore was sent on until it is destroyed, and the killCursors
\* of destroy is the one command that names it.
C40_FatalKeepsCursor ==
    /\ FatalGetMoreError =>
          /\ sent = <<>>
          /\ cursor_id # 0
          /\ cursor_id = cursors_opened
    /\ (CodedGetMoreError /\ GetMoreError.code \in {11601, 136, 237}
        /\ state = "Closed")
          => sent = <<KillCursors(cursors_opened)>>

\* a stream that failed with code 136 was destroyed, and destroy sent the
\* killCursors for the cursor
C40_Witness ==
    /\ GetMoreFailed
    /\ GetMoreError.code = 136
    /\ state = "Closed"
    /\ sent = <<KillCursors(cursors_opened)>>
    /\ cursors_opened >= 1

(* ------------------------------------------------------------------ *)
(* C33  the resume flag                                                *)
(* ------------------------------------------------------------------ *)

BatchConsumed ==
    /\ state = "Open"
    /\ pc \in {"idle", "await_getmore"}
    /\ AtBatchBoundary

\* the cursor a resume opened has answered once, with an empty batch and no
\* postBatchResumeToken, and the running next has sent its getMore
ReplacementSentNoToken ==
    /\ op = "next"
    /\ pc = "await_getmore"
    /\ call_aggregates >= 1
    /\ batch = <<>>
    /\ cursor_pbrt = None

C31_NoReplayAfterDelivery ==
    [][/\ (ResumeSent' /\ last_returned' # None) =>
             LET c == ResumedAggregate'
             IN  /\ c.cmd = "aggregate"
                 /\ c.startAfter = None
                 /\ c.startAtOperationTime = None
                 /\ \/ c.resumeAfter = last_returned'
                    \/ /\ post_batch_token' # None
                       /\ c.resumeAfter = post_batch_token'
                 /\ c.resumeAfter \notin {"opt_ra", "opt_sa", "opt_op", "agg_op"}
       /\ ReturnsDoc =>
             /\ last_returned' = retDoc'
             /\ last_doc_token' = retDoc'
             /\ post_batch_token' \in {None, cursor_pbrt'}]_vars

\* a stream opened with every option returned a document, and a later next
\* resumes for the second time, on a replacement cursor that returned nothing,
\* with the document's _id
C31_Witness ==
    /\ ResumeSent
    /\ call_aggregates = 2
    /\ last_returned # None
    /\ opts.resume_after # None
    /\ opts.start_after # None
    /\ opts.start_at_operation_time # None
    /\ ResumedAggregate.resumeAfter = last_returned
    /\ post_batch_token = None
====
